---- MODULE Spec2Model ----
(***************************************************************************)
(* Guest stay accounts (emmett-starter): the HTTP handlers of              *)
(* src/guestStayAccounts/api.ts around the guest stay account decider.     *)
(*                                                                         *)
(* The event store holds one append-only stream of events per account id.  *)
(* Every command request validates its input, reads the stream and folds   *)
(* it into a state, decides, and appends the decided event provided the    *)
(* stream still has the version that was read.  Requests of several        *)
(* clients interleave at the event store's reads and appends.              *)
(*                                                                         *)
(* Event payload fields that no decision and no handler reads back         *)
(* (recordedAt, checkedOutAt, attemptedAt) are not carried in the events.  *)
(***************************************************************************)
EXTENDS Integers, Sequences, FiniteSets, TLC

VARIABLES
    streams,    \* the event store: account id -> sequence of events
    requests,   \* per client connection: the request in flight, or Idle
    last        \* the request that finished in the latest step, if one did:
                \* what it read, decided and answered

vars == <<streams, requests, last>>

----------------------------------------------------------------------------
(* Bounds of the model *)

\* events in the store, all streams together (concurrent specification)
MaxEvents == 4
\* charge and payment events in one stream (sequential specification)
MaxTx == 3
\* failed check-outs in one stream (sequential specification)
MaxFailed == 2

Slots == {1, 2}
SeqSlots == {1}

Guests == {"g1"}
Rooms == {"r1"}
Days == {0, 1}
Amounts == {1, 2}

\* what a client can send: "" is an absent or empty identifier, -1 a date
\* segment that is no YYYY-MM-DD date, 0 an amount that is not positive
StayInputs == (Guests \X Rooms) \cup {<<"", "r1">>, <<"g1", "">>}
PeriodInputs == (Guests \X Rooms \X Days) \cup
                {<<"", "r1", 0>>, <<"g1", "", 0>>, <<"g1", "r1", -1>>}
AmountInputs == Amounts \cup {0}

\* an instant is a calendar day (UTC) and a time of that day; midnight is 0
TimesOfDay == {0, 1}

\* the readings getCurrentTime() can give
Times == [day : Days, time : TimesOfDay]

----------------------------------------------------------------------------
(* Dates and account ids *)

\* the UTC calendar day of an instant, as the YYYY-MM-DD text names it
formatDateToUtcYYYYMMDD(date) == date.day

isValidYYYYMMDD(dateString) == dateString \in Days

\* midnight UTC of the day the text names
parseDateFromUtcYYYYMMDD(dateString) == [day |-> dateString, time |-> 0]

toGuestStayAccountId(guestId, roomId, date) ==
    <<guestId, roomId, formatDateToUtcYYYYMMDD(date)>>

AccountIds == Guests \X Rooms \X Days

NoId == <<>>

----------------------------------------------------------------------------
(* Events and account state *)

GuestCheckedIn(guestId, roomId, now) ==
    [type |-> "GuestCheckedIn", guestId |-> guestId, roomId |-> roomId,
     checkInDate |-> formatDateToUtcYYYYMMDD(now)]

ChargeRecorded(id, amount) ==
    [type |-> "ChargeRecorded", guestStayAccountId |-> id, amount |-> amount]

PaymentRecorded(id, amount) ==
    [type |-> "PaymentRecorded", guestStayAccountId |-> id, amount |-> amount]

GuestCheckedOut(id) ==
    [type |-> "GuestCheckedOut", guestStayAccountId |-> id]

GuestCheckoutFailed(id) ==
    [type |-> "GuestCheckoutFailed", guestStayAccountId |-> id,
     reason |-> "BalanceNotSettled"]

\* a decision function that throws: no event comes back
Error(name) == [type |-> "Error", error |-> name]

NoResult == [type |-> "None"]

initialState == [status |-> "NotOpened"]

Opened(balance) == [status |-> "Opened", balance |-> balance]

CheckedOut == [status |-> "CheckedOut"]

NoState == [status |-> "None"]

evolve(state, event) ==
    CASE event.type = "GuestCheckedIn" /\ state.status = "NotOpened" ->
            Opened(0)
      [] event.type = "ChargeRecorded" /\ state.status = "Opened" ->
            Opened(state.balance + event.amount)
      [] event.type = "PaymentRecorded" /\ state.status = "Opened" ->
            Opened(state.balance - event.amount)
      [] event.type = "GuestCheckedOut" /\ state.status = "Opened" ->
            CheckedOut
      [] OTHER -> state

\* a replay that stops at the first failed check-out
RECURSIVE FoldUntilFailure(_, _)
FoldUntilFailure(state, events) ==
    IF events = <<>> \/ Head(events).type = "GuestCheckoutFailed" THEN state
    ELSE FoldUntilFailure(evolve(state, Head(events)), Tail(events))

\* evolve folded left to right over a history
RECURSIVE Fold(_, _)
Fold(state, events) ==
    IF events = <<>> THEN state
    ELSE Fold(evolve(state, Head(events)), Tail(events))

Front(events) == SubSeq(events, 1, Len(events) - 1)

\* a read that misses the newest event of the stream
aggregateStreamStale(id) ==
    [state |-> Fold(initialState, Front(streams[id])),
     currentStreamVersion |-> Len(streams[id]),
     streamExists |-> streams[id] # <<>>]

\* eventStore.aggregateStream: the state and the version of a stream
aggregateStream(id) ==
    [state |-> Fold(initialState, streams[id]),
     currentStreamVersion |-> Len(streams[id]),
     streamExists |-> streams[id] # <<>>]

----------------------------------------------------------------------------
(* The decider *)

checkIn(command, state) ==
    IF state.status = "NotOpened"
    THEN GuestCheckedIn(command.guestId, command.roomId, command.now)
    ELSE Error("AlreadyExists")

recordCharge(command, state) ==
    IF state.status = "Opened"
    THEN ChargeRecorded(command.guestStayAccountId, command.amount)
    ELSE Error("NotOpen")

recordPayment(command, state) ==
    IF state.status = "Opened"
    THEN PaymentRecorded(command.guestStayAccountId, command.amount)
    ELSE Error("NotOpen")

checkOut(command, state) ==
    IF state.status # "Opened" THEN Error("NotOpen")
    ELSE IF state.balance = 0
         THEN GuestCheckedOut(command.guestStayAccountId)
         ELSE GuestCheckoutFailed(command.guestStayAccountId)

----------------------------------------------------------------------------
(* Boundary validation *)

\* TRUE when the assertion passes; the handler throws a ValidationError otherwise
assertNotEmptyString(value) == value # ""

assertPositiveNumber(value) == value > 0

\* TRUE when parseGuestStayAccountId throws on the URL parameters
ParamsInvalid(guestId, roomId, checkInDate) ==
    \/ ~assertNotEmptyString(guestId)
    \/ ~assertNotEmptyString(roomId)
    \/ ~isValidYYYYMMDD(checkInDate)

parseGuestStayAccountId(guestId, roomId, checkInDate) ==
    toGuestStayAccountId(guestId, roomId, parseDateFromUtcYYYYMMDD(checkInDate))

----------------------------------------------------------------------------
(* Responses *)

\* a URL built from a second reading of the clock, which after a late
\* check-in shows the next day
CreatedReadingClockAgain(guestId, roomId, now) ==
    [status |-> "Created",
     url |-> <<guestId, roomId,
               formatDateToUtcYYYYMMDD([day |-> now.day + now.time, time |-> 0])>>]

Created(guestId, roomId, now) ==
    [status |-> "Created",
     url |-> <<guestId, roomId, formatDateToUtcYYYYMMDD(now)>>]

NoContent == [status |-> "NoContent"]

Forbidden == [status |-> "Forbidden"]

NotFound == [status |-> "NotFound"]

OK(body) == [status |-> "OK", body |-> body]

\* an error thrown out of the handler, answered by the web framework
Problem(name) == [status |-> "Problem", error |-> name]

----------------------------------------------------------------------------
(* Requests *)

Idle == [pc |-> "idle"]

\* what is known of a finished request
Entry(kind, oracle, id, state, result, response) ==
    [kind |-> kind, doesGuestStayExist |-> oracle, id |-> id, state |-> state,
     result |-> result, response |-> response, rerun |-> FALSE]

NoEntry == Entry("None", "notAsked", NoId, NoState, NoResult, [status |-> "None"])

\* a request thrown out at the boundary, before the event store is touched
Invalid(kind) ==
    Entry(kind, "notAsked", NoId, NoState, NoResult, Problem("ValidationError"))

\* a handle that takes the version of the stream but does not replay it
ReadUnreplayed(command, id) ==
    [pc |-> "handling", command |-> command, id |-> id,
     state |-> initialState,
     version |-> aggregateStream(id).currentStreamVersion,
     wasCheckedOut |-> FALSE, rerun |-> FALSE]

\* handle, first half: aggregate the stream into the state the decision will see
\* wasCheckedOut is the check-out handler's variable, as the decision closure
\* left it when it ran before; rerun tells that it ran before
Read(command, id) ==
    [pc |-> "handling", command |-> command, id |-> id,
     state |-> aggregateStream(id).state,
     version |-> aggregateStream(id).currentStreamVersion,
     wasCheckedOut |-> FALSE, rerun |-> FALSE]

Start(s, command, id) ==
    /\ requests' = [requests EXCEPT ![s] = Read(command, id)]
    /\ last' = NoEntry
    /\ UNCHANGED streams

Finish(s, entry) ==
    /\ requests' = [requests EXCEPT ![s] = Idle]
    /\ last' = entry

\* the check-in handler deciding without looking at the state
DecideCheckInUnguarded(command, state) ==
    CASE command.type = "CheckIn" -> checkIn(command, initialState)
      [] command.type = "RecordCharge" -> recordCharge(command, state)
      [] command.type = "RecordPayment" -> recordPayment(command, state)
      [] command.type = "CheckOut" -> checkOut(command, state)

\* the payment handler calling the charge decision
DecidePaymentAsCharge(command, state) ==
    CASE command.type = "CheckIn" -> checkIn(command, state)
      [] command.type = "RecordCharge" -> recordCharge(command, state)
      [] command.type = "RecordPayment" -> recordCharge(command, state)
      [] command.type = "CheckOut" -> checkOut(command, state)

\* the decision closure each handler passes to handle
Decide(command, state) ==
    CASE command.type = "CheckIn" -> checkIn(command, state)
      [] command.type = "RecordCharge" -> recordCharge(command, state)
      [] command.type = "RecordPayment" -> recordPayment(command, state)
      [] command.type = "CheckOut" -> checkOut(command, state)

\* what a handler answers once handle has appended `result`
Respond(command, result) ==
    CASE command.type = "CheckIn" ->
            Created(command.guestId, command.roomId, command.now)
      [] command.type \in {"RecordCharge", "RecordPayment"} -> NoContent
      [] command.type = "CheckOut" ->
            LET wasCheckedOut == result.type = "GuestCheckedOut"
            IN  IF wasCheckedOut THEN NoContent ELSE Forbidden

\* what doesGuestStayExist answered to the request, if it was asked
Oracle(command) ==
    IF command.type # "CheckIn" THEN "notAsked"
    ELSE IF command.guestStayExists THEN "true" ELSE "false"

\* the end of a request that went through handle
Outcome(r, result, response) ==
    [Entry(r.command.type, Oracle(r.command), r.id, r.state, result, response)
        EXCEPT !.rerun = r.rerun]

Init ==
    /\ streams = [id \in AccountIds |-> <<>>]
    /\ requests = [s \in Slots |-> Idle]
    /\ last = NoEntry

----------------------------------------------------------------------------
(* The handlers, up to the read of the stream *)

\* a check-in that goes on whatever doesGuestStayExist answers
CheckInRequestIgnoringOracle(s) ==
    /\ requests[s] = Idle
    /\ \E stay \in StayInputs, now \in Times, exists \in BOOLEAN :
          LET guestId == stay[1]
              roomId == stay[2]
          IN
          IF ~assertNotEmptyString(guestId) \/ ~assertNotEmptyString(roomId)
          THEN Finish(s, Invalid("CheckIn")) /\ UNCHANGED streams
          ELSE Start(s, [type |-> "CheckIn", guestId |-> guestId,
                         roomId |-> roomId, now |-> now,
                         guestStayExists |-> exists],
                     toGuestStayAccountId(guestId, roomId, now))

\* POST /guests/:guestId/stays/:roomId
CheckInRequest(s) ==
    /\ requests[s] = Idle
    /\ \E stay \in StayInputs, now \in Times, exists \in BOOLEAN :
          LET guestId == stay[1]
              roomId == stay[2]
          IN
          IF ~assertNotEmptyString(guestId) \/ ~assertNotEmptyString(roomId)
          THEN Finish(s, Invalid("CheckIn")) /\ UNCHANGED streams
          ELSE IF ~exists
          THEN /\ Finish(s, Entry("CheckIn", "false", NoId, NoState, NoResult,
                                  Forbidden))
               /\ UNCHANGED streams
          ELSE Start(s, [type |-> "CheckIn", guestId |-> guestId,
                         roomId |-> roomId, now |-> now,
                         guestStayExists |-> exists],
                     toGuestStayAccountId(guestId, roomId, now))

\* a charge handler that does not assert the amount
RecordChargeRequestUnasserted(s) ==
    /\ requests[s] = Idle
    /\ \E period \in PeriodInputs, amount \in AmountInputs :
          LET guestId == period[1]
              roomId == period[2]
              checkInDate == period[3]
          IN
          IF ParamsInvalid(guestId, roomId, checkInDate)
          THEN Finish(s, Invalid("RecordCharge")) /\ UNCHANGED streams
          ELSE LET id == parseGuestStayAccountId(guestId, roomId, checkInDate)
               IN  Start(s, [type |-> "RecordCharge", guestStayAccountId |-> id,
                             amount |-> amount], id)

\* POST /guests/:guestId/stays/:roomId/periods/:checkInDate/charges
RecordChargeRequest(s) ==
    /\ requests[s] = Idle
    /\ \E period \in PeriodInputs, amount \in AmountInputs :
          LET guestId == period[1]
              roomId == period[2]
              checkInDate == period[3]
          IN
          IF \/ ParamsInvalid(guestId, roomId, checkInDate)
             \/ ~assertPositiveNumber(amount)
          THEN Finish(s, Invalid("RecordCharge")) /\ UNCHANGED streams
          ELSE LET id == parseGuestStayAccountId(guestId, roomId, checkInDate)
               IN  Start(s, [type |-> "RecordCharge", guestStayAccountId |-> id,
                             amount |-> amount], id)

\* POST /guests/:guestId/stays/:roomId/periods/:checkInDate/payments
RecordPaymentRequest(s) ==
    /\ requests[s] = Idle
    /\ \E period \in PeriodInputs, amount \in AmountInputs :
          LET guestId == period[1]
              roomId == period[2]
              checkInDate == period[3]
          IN
          IF \/ ParamsInvalid(guestId, roomId, checkInDate)
             \/ ~assertPositiveNumber(amount)
          THEN Finish(s, Invalid("RecordPayment")) /\ UNCHANGED streams
          ELSE LET id == parseGuestStayAccountId(guestId, roomId, checkInDate)
               IN  Start(s, [type |-> "RecordPayment", guestStayAccountId |-> id,
                             amount |-> amount], id)

\* DELETE /guests/:guestId/stays/:roomId/periods/:checkInDate
CheckOutRequest(s) ==
    /\ requests[s] = Idle
    /\ \E period \in PeriodInputs :
          LET guestId == period[1]
              roomId == period[2]
              checkInDate == period[3]
          IN
          IF ParamsInvalid(guestId, roomId, checkInDate)
          THEN Finish(s, Invalid("CheckOut")) /\ UNCHANGED streams
          ELSE LET id == parseGuestStayAccountId(guestId, roomId, checkInDate)
               IN  Start(s, [type |-> "CheckOut", guestStayAccountId |-> id], id)

\* a GET that answers with the state of every account that has events
GetRequestAnyStatus(s) ==
    /\ requests[s] = Idle
    /\ UNCHANGED streams
    /\ \E period \in PeriodInputs :
          LET guestId == period[1]
              roomId == period[2]
              checkInDate == period[3]
          IN
          IF ParamsInvalid(guestId, roomId, checkInDate)
          THEN Finish(s, Invalid("Get"))
          ELSE LET id == parseGuestStayAccountId(guestId, roomId, checkInDate)
                   result == aggregateStream(id)
               IN  Finish(s, Entry("Get", "notAsked", id, result.state, NoResult,
                          IF ~result.streamExists THEN NotFound
                          ELSE OK(result.state)))

\* GET /guests/:guestId/stays/:roomId/periods/:checkInDate
GetRequest(s) ==
    /\ requests[s] = Idle
    /\ UNCHANGED streams
    /\ \E period \in PeriodInputs :
          LET guestId == period[1]
              roomId == period[2]
              checkInDate == period[3]
          IN
          IF ParamsInvalid(guestId, roomId, checkInDate)
          THEN Finish(s, Invalid("Get"))
          ELSE LET id == parseGuestStayAccountId(guestId, roomId, checkInDate)
                   result == aggregateStream(id)
               IN  Finish(s, Entry("Get", "notAsked", id, result.state, NoResult,
                          IF ~result.streamExists THEN NotFound
                          ELSE IF result.state.status # "Opened" THEN NotFound
                          ELSE OK(result.state)))

----------------------------------------------------------------------------
(* handle, second half: decide, then append if the stream has not moved *)

\* an error of the decision that is never answered: the request stays open
HandleRejectedHanging(s) ==
    LET r == requests[s] IN
    /\ r.pc = "handling"
    /\ Decide(r.command, r.state).type = "Error"
    /\ requests' = [requests EXCEPT ![s].pc = "hanging"]
    /\ last' = NoEntry
    /\ UNCHANGED streams

\* a refused check-out recorded in the stream as a failed one
HandleRejectedRecordingFailure(s) ==
    LET r == requests[s] IN
    /\ r.pc = "handling"
    /\ LET result == Decide(r.command, r.state) IN
       /\ result.type = "Error"
       /\ IF r.command.type = "CheckOut"
          THEN /\ Len(streams[r.id]) = r.version
               /\ streams' = [streams EXCEPT
                     ![r.id] = Append(@, GuestCheckoutFailed(r.id))]
               /\ Finish(s, Outcome(r, GuestCheckoutFailed(r.id), Forbidden))
          ELSE /\ Finish(s, Outcome(r, result, Problem(result.error)))
               /\ UNCHANGED streams

\* the thrown error is swallowed and the handler answers as on success
HandleRejectedSilently(s) ==
    LET r == requests[s] IN
    /\ r.pc = "handling"
    /\ LET result == Decide(r.command, r.state) IN
       /\ result.type = "Error"
       /\ Finish(s, Entry(r.command.type, Oracle(r.command), r.id, r.state,
                          result, Respond(r.command, result)))
    /\ UNCHANGED streams

\* the decision function throws: nothing is appended
HandleRejected(s) ==
    LET r == requests[s] IN
    /\ r.pc = "handling"
    /\ LET result == Decide(r.command, r.state) IN
       /\ result.type = "Error"
       /\ Finish(s, Outcome(r, result, Problem(result.error)))
    /\ UNCHANGED streams

\* an append that writes the decided event twice
HandleAppendedTwice(s) ==
    LET r == requests[s] IN
    /\ r.pc = "handling"
    /\ LET result == Decide(r.command, r.state) IN
       /\ result.type # "Error"
       /\ Len(streams[r.id]) = r.version
       /\ streams' = [streams EXCEPT ![r.id] = Append(Append(@, result), result)]
       /\ Finish(s, Entry(r.command.type, Oracle(r.command), r.id, r.state,
                          result, Respond(r.command, result)))

\* an append that keeps only the events that change the state
HandleAppendedDroppingFailures(s) ==
    LET r == requests[s] IN
    /\ r.pc = "handling"
    /\ LET result == Decide(r.command, r.state) IN
       /\ result.type # "Error"
       /\ Len(streams[r.id]) = r.version
       /\ streams' = [streams EXCEPT ![r.id] =
                         IF result.type = "GuestCheckoutFailed" THEN @
                         ELSE Append(@, result)]
       /\ Finish(s, Entry(r.command.type, Oracle(r.command), r.id, r.state,
                          result, Respond(r.command, result)))

\* an append that does not compare the stream's version with the one read
HandleAppendedUnconditionally(s) ==
    LET r == requests[s] IN
    /\ r.pc = "handling"
    /\ LET result == Decide(r.command, r.state) IN
       /\ result.type # "Error"
       /\ streams' = [streams EXCEPT ![r.id] = Append(@, result)]
       /\ Finish(s, Entry(r.command.type, Oracle(r.command), r.id, r.state,
                          result, Respond(r.command, result)))

\* an append to a stream named by the guest and the room alone, which the
\* stays of all periods share
HandleAppendedToGuest(s) ==
    LET r == requests[s] IN
    /\ r.pc = "handling"
    /\ LET result == Decide(r.command, r.state) IN
       /\ result.type # "Error"
       /\ Len(streams[r.id]) = r.version
       /\ streams' = [id \in AccountIds |->
                        IF id[1] = r.id[1] /\ id[2] = r.id[2]
                        THEN Append(streams[id], result)
                        ELSE streams[id]]
       /\ Finish(s, Outcome(r, result, Respond(r.command, result)))

\* a check-out handler whose closure only ever raises wasCheckedOut, so that
\* the value of a run that was not appended stays
HandleAppendedKeepingFlag(s) ==
    LET r == requests[s] IN
    /\ r.pc = "handling"
    /\ LET result == Decide(r.command, r.state) IN
       /\ result.type # "Error"
       /\ Len(streams[r.id]) = r.version
       /\ streams' = [streams EXCEPT ![r.id] = Append(@, result)]
       /\ Finish(s, Outcome(r, result,
                     IF r.command.type = "CheckOut" /\ r.wasCheckedOut
                     THEN NoContent
                     ELSE Respond(r.command, result)))

\* the stream is at the version that was read: the event is appended
HandleAppended(s) ==
    LET r == requests[s] IN
    /\ r.pc = "handling"
    /\ LET result == Decide(r.command, r.state) IN
       /\ result.type # "Error"
       /\ Len(streams[r.id]) = r.version
       /\ streams' = [streams EXCEPT ![r.id] = Append(@, result)]
       /\ Finish(s, Outcome(r, result, Respond(r.command, result)))

\* a retry that takes the stream's new version but keeps the state it had
HandleConflictRetriedStale(s) ==
    LET r == requests[s] IN
    /\ r.pc = "handling"
    /\ Decide(r.command, r.state).type # "Error"
    /\ Len(streams[r.id]) # r.version
    /\ requests' = [requests EXCEPT ![s] =
                       [r EXCEPT !.version = Len(streams[r.id]),
                                 !.rerun = TRUE]]
    /\ last' = NoEntry
    /\ UNCHANGED streams

\* the stream has moved since the read: the append is refused and the
\* command is run again on a fresh read.  Whether and how often handle
\* retries is the event store client's policy: after any conflict it may
\* retry or give up (HandleConflictFailed).
HandleConflictRetried(s) ==
    LET r == requests[s] IN
    /\ r.pc = "handling"
    /\ Decide(r.command, r.state).type # "Error"
    /\ Len(streams[r.id]) # r.version
    /\ requests' = [requests EXCEPT ![s] =
          [Read(r.command, r.id) EXCEPT
              !.wasCheckedOut = Decide(r.command, r.state).type = "GuestCheckedOut",
              !.rerun = TRUE]]
    /\ last' = NoEntry
    /\ UNCHANGED streams

\* the stream has moved since the read: the append is refused and the
\* conflict is reported to the client
HandleConflictFailed(s) ==
    LET r == requests[s] IN
    /\ r.pc = "handling"
    /\ LET result == Decide(r.command, r.state) IN
       /\ result.type # "Error"
       /\ Len(streams[r.id]) # r.version
       /\ Finish(s, Outcome(r, result, Problem("ConcurrencyConflict")))
    /\ UNCHANGED streams

RECURSIVE TotalEvents(_, _)
TotalEvents(store, ids) ==
    IF ids = {} THEN 0
    ELSE LET id == CHOOSE x \in ids : TRUE
         IN  Len(store[id]) + TotalEvents(store, ids \ {id})

InFlight == {s \in Slots : requests[s].pc = "handling"}

\* a new command is taken while the store has room for its event
Accepting == TotalEvents(streams, AccountIds) + Cardinality(InFlight) < MaxEvents

\* requests of all clients interleave
Next ==
    \E s \in Slots :
        \/ Accepting /\ CheckInRequest(s)
        \/ Accepting /\ RecordChargeRequest(s)
        \/ Accepting /\ RecordPaymentRequest(s)
        \/ Accepting /\ CheckOutRequest(s)
        \/ GetRequest(s)
        \/ HandleRejected(s)
        \/ HandleAppended(s)
        \/ HandleConflictRetried(s)
        \/ HandleConflictFailed(s)

Spec == Init /\ [][Next]_vars

----------------------------------------------------------------------------
(* One client, one stay: requests run one after another *)

SeqAccount == <<"g1", "r1", 0>>

Count(events, types) ==
    Cardinality({i \in 1 .. Len(events) : events[i].type \in types})

\* the command just read is taken while its stream has room for its event
SeqAdmits(r) ==
    r.pc = "handling" =>
        /\ r.id = SeqAccount
        /\ r.command.type \in {"RecordCharge", "RecordPayment"} =>
              Count(streams[r.id], {"ChargeRecorded", "PaymentRecorded"}) < MaxTx
        /\ r.command.type = "CheckOut"
              /\ Decide(r.command, r.state).type = "GuestCheckoutFailed" =>
              Count(streams[r.id], {"GuestCheckoutFailed"}) < MaxFailed

NextSeq ==
    \E s \in SeqSlots :
        \/ CheckInRequest(s) /\ SeqAdmits(requests'[s])
        \/ RecordChargeRequest(s) /\ SeqAdmits(requests'[s])
        \/ RecordPaymentRequest(s) /\ SeqAdmits(requests'[s])
        \/ CheckOutRequest(s) /\ SeqAdmits(requests'[s])
        \/ GetRequest(s)
        \/ HandleRejected(s)
        \/ HandleAppended(s)

SpecSeq == Init /\ [][NextSeq]_vars

----------------------------------------------------------------------------
(* Two clients on one account, each cycle in flight scheduled fairly *)

OnOneAccount(r) == r.pc = "handling" => r.id = SeqAccount

\* the steps of handle for the cycle of client s
HandleStep(s) ==
    \/ HandleRejected(s)
    \/ HandleAppended(s)
    \/ HandleConflictRetried(s)
    \/ HandleConflictFailed(s)

NextFair ==
    \E s \in Slots :
        \/ Accepting /\ CheckInRequest(s) /\ OnOneAccount(requests'[s])
        \/ Accepting /\ RecordChargeRequest(s) /\ OnOneAccount(requests'[s])
        \/ Accepting /\ RecordPaymentRequest(s) /\ OnOneAccount(requests'[s])
        \/ Accepting /\ CheckOutRequest(s) /\ OnOneAccount(requests'[s])
        \/ HandleRejected(s)
        \/ HandleAppended(s)
        \/ HandleConflictRetried(s)
        \/ HandleConflictFailed(s)

\* the continuation of a cycle in flight is run once its promise settles
SpecFair == Init /\ [][NextFair]_vars /\ \A s \in Slots : WF_vars(HandleStep(s))

----------------------------------------------------------------------------
(* What the properties speak of *)

EventTypes == {"GuestCheckedIn", "ChargeRecorded", "PaymentRecorded",
               "GuestCheckedOut", "GuestCheckoutFailed"}

TxTypes == {"ChargeRecorded", "PaymentRecorded"}

\* the amounts of the events of one type, added up
RECURSIVE Sum(_, _)
Sum(events, type) ==
    IF events = <<>> THEN 0
    ELSE (IF Head(events).type = type THEN Head(events).amount ELSE 0)
         + Sum(Tail(events), type)

\* charges minus payments
Net(events) == Sum(events, "ChargeRecorded") - Sum(events, "PaymentRecorded")

\* a history of a checked-in guest who has not checked out
IsOpen(events) ==
    /\ events # <<>>
    /\ events[1].type = "GuestCheckedIn"
    /\ \A i \in 1 .. Len(events) : events[i].type # "GuestCheckedOut"

\* the finished request appended the event it decided
Appended(entry) ==
    /\ entry.result.type \in EventTypes
    /\ entry.response.status \in {"Created", "NoContent", "Forbidden"}

\* the finished request went through handle
Handled(entry) == entry.id \in AccountIds /\ entry.kind # "Get"

\* the history the finished request left, and the one it found
After == streams[last.id]
Before == IF Appended(last) THEN Front(After) ELSE After

HasCheckedOut(events) ==
    \E i \in 1 .. Len(events) : events[i].type = "GuestCheckedOut"

\* this step ends the request of client s
Finishing(s) == requests[s].pc = "handling" /\ requests'[s] = Idle

----------------------------------------------------------------------------
(* C1: a check-out of an Opened account is decided on the balance of the
   history it found: it appends GuestCheckedOut exactly when charges minus
   payments is zero, however many entries made it zero, and otherwise (a
   debt or an overpayment alike) appends GuestCheckoutFailed, which leaves
   the replayed balance as it was. *)
C1_CheckOutIffBalanceZero ==
    (last.kind = "CheckOut" /\ Handled(last) /\ IsOpen(Before)) =>
        /\ last.state = Opened(Net(Before))
        /\ After = Append(Before, last.result)
        /\ IF Net(Before) = 0
           THEN last.result = GuestCheckedOut(last.id)
           ELSE /\ last.result = GuestCheckoutFailed(last.id)
                /\ aggregateStream(last.id).state = Opened(Net(Before))

C1_Witness ==
    /\ last.kind = "CheckOut"
    /\ last.result.type = "GuestCheckedOut"
    /\ Count(Before, TxTypes) = 3

\* a check-out refused on an overpaid account
C1_WitnessOverpaid ==
    /\ last.kind = "CheckOut"
    /\ last.result.type = "GuestCheckoutFailed"
    /\ Net(Before) < 0

(* C2: no check-out with an outstanding balance: in every stream, under
   every interleaving of requests, charges minus payments before each
   GuestCheckedOut event is zero. *)
C2_NoCheckOutWithBalance ==
    \A id \in AccountIds : \A i \in 1 .. Len(streams[id]) :
        streams[id][i].type = "GuestCheckedOut" =>
            Net(SubSeq(streams[id], 1, i - 1)) = 0

C2_Witness ==
    \E id \in AccountIds :
        /\ Len(streams[id]) = 4
        /\ streams[id][4].type = "GuestCheckedOut"
        /\ Count(streams[id], TxTypes) = 2

(* C3: in every Opened state the balance replayed from the history is the
   sum of its ChargeRecorded amounts minus the sum of its PaymentRecorded
   amounts: a recorded charge raises it and a recorded payment lowers it by
   the event's amount, and exchanging two neighbouring charges or payments
   of the history does not change it. *)
Swapped(events, i) ==
    [events EXCEPT ![i] = events[i + 1], ![i + 1] = events[i]]

C3_BalanceIsChargesMinusPayments ==
    /\ \A id \in AccountIds :
          LET events == streams[id] IN
          IsOpen(events) =>
             /\ aggregateStream(id).state =
                   Opened(Sum(events, "ChargeRecorded")
                          - Sum(events, "PaymentRecorded"))
             /\ \A i \in 1 .. Len(events) - 1 :
                   (events[i].type \in TxTypes /\ events[i + 1].type \in TxTypes)
                   => Fold(initialState, Swapped(events, i))
                         = Fold(initialState, events)
    /\ (last.kind = "RecordCharge" /\ Appended(last)) =>
          /\ last.result.type = "ChargeRecorded"
          /\ aggregateStream(last.id).state =
                Opened(last.state.balance + last.result.amount)
    /\ (last.kind = "RecordPayment" /\ Appended(last)) =>
          /\ last.result.type = "PaymentRecorded"
          /\ aggregateStream(last.id).state =
                Opened(last.state.balance - last.result.amount)

C3_Witness ==
    /\ last.kind = "RecordPayment"
    /\ Appended(last)
    /\ Len(After) = 4
    /\ After[2].type = "PaymentRecorded" /\ After[2].amount = 1
    /\ After[3].type = "ChargeRecorded" /\ After[3].amount = 2
    /\ After[4].amount = 2
    /\ aggregateStream(last.id).state = Opened(-1)

(* C4: CheckedOut is terminal: once a stream holds GuestCheckedOut it never
   changes again, and every command that finishes on that account from then
   on, whatever its kind, is answered with an error; a command that read
   the CheckedOut state is refused by its decision function. *)
C4_CheckedOutIsTerminal ==
    [][\A id \in AccountIds :
          HasCheckedOut(streams[id]) =>
             /\ streams'[id] = streams[id]
             /\ \A s \in Slots :
                   (Finishing(s) /\ requests[s].id = id) =>
                      /\ last'.kind = requests[s].command.type
                      /\ last'.response.status = "Problem"
                      /\ requests[s].state = CheckedOut =>
                            /\ last'.result.type = "Error"
                            /\ last'.response.error
                                  \in {"NotOpen", "AlreadyExists"}]_vars

C4_Witness ==
    /\ last.kind = "RecordPayment"
    /\ last.state = CheckedOut
    /\ last.response = Problem("NotOpen")
    /\ Len(After) = 2
    /\ After[2] = GuestCheckedOut(last.id)

(* C5: a charge or a payment decided on a NotOpened or CheckedOut state
   fails with NotOpen and appends nothing, the store is left as it was, and
   every ChargeRecorded and PaymentRecorded in a stream follows a
   GuestCheckedIn with no GuestCheckedOut in between. *)
C5_NoTransactionUnlessOpened ==
    /\ [](\A id \in AccountIds : \A i \in 1 .. Len(streams[id]) :
             streams[id][i].type \in TxTypes =>
                IsOpen(SubSeq(streams[id], 1, i - 1)))
    /\ [][\A s \in Slots :
             (/\ Finishing(s)
              /\ requests[s].command.type \in {"RecordCharge", "RecordPayment"}
              /\ requests[s].state.status \in {"NotOpened", "CheckedOut"}) =>
                /\ streams' = streams
                /\ last'.result = Error("NotOpen")
                /\ last'.response = Problem("NotOpen")]_vars

C5_Witness ==
    /\ last.kind = "RecordCharge"
    /\ last.state = initialState
    /\ last.response = Problem("NotOpen")
    /\ After = <<>>

(* C6: a check-in decided on the NotOpened state yields exactly one
   GuestCheckedIn event, for the guest, room and day of the request, and the
   history it leaves replays to Opened with balance 0. *)
C6_CheckInOpensAccount ==
    (last.kind = "CheckIn" /\ Handled(last) /\ last.state = initialState) =>
        /\ last.result = [type |-> "GuestCheckedIn", guestId |-> last.id[1],
                          roomId |-> last.id[2], checkInDate |-> last.id[3]]
        /\ After = <<last.result>>
        /\ evolve(last.state, last.result) = Opened(0)
        /\ aggregateStream(last.id).state = Opened(0)
        /\ last.response.status = "Created"

C6_Witness ==
    /\ last.kind = "CheckIn"
    /\ last.state = initialState
    /\ last.response.status = "Created"
    /\ Len(After) = 1
    /\ After[1].type = "GuestCheckedIn"

(* C7: a check-in decided on an Opened or CheckedOut state fails with
   AlreadyExists and leaves the store as it was; no stream has a
   GuestCheckedIn after its first event, and the balance of an open stream
   stays the net of its charges and payments. *)
C7_DuplicateCheckInRejected ==
    /\ [](\A id \in AccountIds :
             /\ \A i \in 2 .. Len(streams[id]) :
                   streams[id][i].type # "GuestCheckedIn"
             /\ IsOpen(streams[id]) =>
                   aggregateStream(id).state = Opened(Net(streams[id])))
    /\ [][\A s \in Slots :
             (/\ Finishing(s)
              /\ requests[s].command.type = "CheckIn"
              /\ requests[s].state.status \in {"Opened", "CheckedOut"}) =>
                /\ streams' = streams
                /\ last'.result = Error("AlreadyExists")
                /\ last'.response = Problem("AlreadyExists")]_vars

C7_Witness ==
    /\ last.kind = "CheckIn"
    /\ last.state = Opened(2)
    /\ last.response = Problem("AlreadyExists")
    /\ Len(After) = 2
    /\ aggregateStream(last.id).state = Opened(2)

(* C8: a check-in request to which doesGuestStayExist answers false is
   answered Forbidden without reading the stream or deciding anything, in
   the step that leaves the store as it was; every check-in that reaches
   handle was answered true. *)
C8_NoCheckInWithoutStay ==
    /\ [](\A s \in Slots :
             (requests[s].pc = "handling" /\ requests[s].command.type = "CheckIn")
             => requests[s].command.guestStayExists)
    /\ []((last.kind = "CheckIn" /\ last.doesGuestStayExist = "false") =>
             /\ last.response = Forbidden
             /\ last.result = NoResult
             /\ last.state = NoState)
    /\ [][(last'.kind = "CheckIn" /\ last'.doesGuestStayExist = "false")
             => streams' = streams]_vars

\* refused while another client's check-in for the same guest is under way
C8_Witness ==
    /\ last.kind = "CheckIn"
    /\ last.doesGuestStayExist = "false"
    /\ last.response = Forbidden
    /\ \E s \in Slots :
          /\ requests[s].pc = "handling"
          /\ requests[s].command.type = "CheckIn"
          /\ streams[requests[s].id] = <<>>

(* C9: a check-out decided on an Opened state with a nonzero balance is
   recorded: unless the append is refused by a version conflict, the
   GuestCheckoutFailed event is the new last event of the stream, and
   evolving it leaves the state (status and balance) as it was. *)
C9_FailedCheckOutRecorded ==
    (/\ last.kind = "CheckOut"
     /\ Handled(last)
     /\ last.state.status = "Opened"
     /\ last.state.balance # 0
     /\ last.response # Problem("ConcurrencyConflict")) =>
        /\ last.result = GuestCheckoutFailed(last.id)
        /\ Appended(last)
        /\ After # <<>>
        /\ After[Len(After)] = last.result
        /\ Fold(initialState, Front(After)) = last.state
        /\ evolve(last.state, last.result) = last.state
        /\ aggregateStream(last.id).state = last.state

C9_Witness ==
    /\ last.kind = "CheckOut"
    /\ last.state = Opened(-2)
    /\ After[Len(After)].type = "GuestCheckoutFailed"
    /\ aggregateStream(last.id).state = Opened(-2)

(* C10: rejection is idempotent: a check-out of an open history whose net
   is not zero yields GuestCheckoutFailed however many failed check-outs
   the history already holds, a run of GuestCheckoutFailed events leaves
   the replayed state Opened with the balance it had before the run, and a
   check-out after the net has come back to zero yields GuestCheckedOut in
   spite of the earlier failures. *)
C10_RejectionIdempotent ==
    /\ \A id \in AccountIds : \A i \in 1 .. Len(streams[id]) :
          streams[id][i].type = "GuestCheckoutFailed" =>
             LET before == Fold(initialState, SubSeq(streams[id], 1, i - 1))
             IN  /\ before.status = "Opened"
                 /\ before.balance # 0
                 /\ Fold(initialState, SubSeq(streams[id], 1, i)) = before
    /\ (last.kind = "CheckOut" /\ Handled(last) /\ IsOpen(Before)) =>
          /\ Net(Before) # 0 =>
                /\ last.result = GuestCheckoutFailed(last.id)
                /\ After = Append(Before, last.result)
                /\ aggregateStream(last.id).state = Opened(Net(Before))
          /\ Net(Before) = 0 =>
                /\ last.result = GuestCheckedOut(last.id)
                /\ aggregateStream(last.id).state = CheckedOut

C10_Witness ==
    /\ last.kind = "CheckOut"
    /\ last.result.type = "GuestCheckedOut"
    /\ Len(After) = 6
    /\ After[3].type = "GuestCheckoutFailed"
    /\ After[4].type = "GuestCheckoutFailed"
    /\ After[5].type \in TxTypes

(* C11: each stream is a single agreed order of events. A cycle in flight
   holds the fold of the events up to the version it read; a step that
   changes a stream is the append of one cycle that read the stream's
   present version, adds the event decided against the fold of exactly the
   events before it, and leaves every other cycle that read that version
   behind the stream, where its append can no longer succeed. *)
C11_AppendsAreSerialised ==
    /\ [](\A s \in Slots : requests[s].pc = "handling" =>
            /\ requests[s].version <= Len(streams[requests[s].id])
            /\ requests[s].state =
                 Fold(initialState,
                      SubSeq(streams[requests[s].id], 1, requests[s].version)))
    /\ [][\A id \in AccountIds : streams'[id] # streams[id] =>
            \E s \in Slots :
                /\ Finishing(s)
                /\ requests[s].id = id
                /\ requests[s].version = Len(streams[id])
                /\ streams'[id] =
                     Append(streams[id],
                            Decide(requests[s].command,
                                   Fold(initialState, streams[id])))
                /\ \A t \in Slots \ {s} :
                       /\ requests'[t] = requests[t]
                       /\ (requests[t].pc = "handling" /\ requests[t].id = id)
                            => requests'[t].version < Len(streams'[id])]_vars

\* of two cycles that read the same version one appended, and the other, not
\* retried, ended with the conflict
C11_Witness ==
    /\ last.response = Problem("ConcurrencyConflict")
    /\ ~last.rerun
    /\ last.result.type \in EventTypes
    /\ last.state = Fold(initialState, Front(After))
    /\ last.state # Fold(initialState, After)

(* C12: a check-out of an account that was never checked in is refused with
   NotOpen: the request ends with that error and not with NoContent, and no
   stream holds a GuestCheckedOut or a GuestCheckoutFailed that does not
   stand on an Opened account. *)
C12_CheckOutNeedsCheckIn ==
    /\ (last.kind = "CheckOut" /\ Handled(last) /\ last.state = initialState) =>
          /\ last.result = Error("NotOpen")
          /\ last.response = Problem("NotOpen")
          /\ last.response # NoContent
          /\ ~Appended(last)
    /\ \A id \in AccountIds : \A i \in 1 .. Len(streams[id]) :
          streams[id][i].type \in {"GuestCheckedOut", "GuestCheckoutFailed"} =>
              Fold(initialState, SubSeq(streams[id], 1, i - 1)).status = "Opened"

\* a check-out refused on an account without events
C12_Witness ==
    /\ last.kind = "CheckOut"
    /\ last.state = initialState
    /\ last.response = Problem("NotOpen")
    /\ streams[last.id] = <<>>

(* C13: a request whose parameters or amount fail validation ends with a
   ValidationError in the step that receives it: nothing was read, nothing
   was decided, no stream changes and no cycle starts. Hence every cycle in
   flight carries a parsed account id and, for a charge or a payment, a
   strictly positive amount, and so does every ChargeRecorded and
   PaymentRecorded of every stream. *)
C13_ValidationBeforeDecision ==
    /\ [](/\ last.response = Problem("ValidationError") =>
               /\ last.id = NoId
               /\ last.state = NoState
               /\ last.result = NoResult
          /\ \A s \in Slots : requests[s].pc = "handling" =>
               /\ requests[s].id \in AccountIds
               /\ requests[s].command.type \in {"RecordCharge", "RecordPayment"}
                    => requests[s].command.amount > 0
          /\ \A id \in AccountIds : \A i \in 1 .. Len(streams[id]) :
               streams[id][i].type \in TxTypes => streams[id][i].amount > 0)
    /\ [][(last' # last /\ last'.response = Problem("ValidationError")) =>
            /\ streams' = streams
            /\ \A s \in Slots : requests'[s] = Idle \/ requests'[s] = requests[s]]_vars

\* a charge refused at the boundary while an account is open
C13_Witness ==
    /\ last = Invalid("RecordCharge")
    /\ \E id \in AccountIds : IsOpen(streams[id])

(* C14: the command side and the query side replay a stream into the same
   state: when a GET has just answered for an account, every cycle in
   flight on that account that read the stream at its present length holds
   the state the GET replayed, which is the body of the GET's OK answer and
   the fold of the stream from the initial state. *)
C14_CommandAndQuerySeeSameState ==
    \A s \in Slots :
        (/\ requests[s].pc = "handling"
         /\ last.kind = "Get"
         /\ last.id = requests[s].id
         /\ requests[s].version = Len(streams[last.id])) =>
            /\ requests[s].state = last.state
            /\ last.state = Fold(initialState, streams[last.id])
            /\ last.response.status = "OK" => last.response.body = requests[s].state

\* a GET answered with a non-zero balance while a command that read the same
\* events is in flight
C14_Witness ==
    \E s \in Slots :
        /\ requests[s].pc = "handling"
        /\ last.kind = "Get"
        /\ last.id = requests[s].id
        /\ requests[s].version = Len(streams[last.id])
        /\ last.response.status = "OK"
        /\ last.response.body.balance # 0

\* the account an event was decided for
AccountOf(event) ==
    IF event.type = "GuestCheckedIn"
    THEN <<event.guestId, event.roomId, event.checkInDate>>
    ELSE event.guestStayAccountId

\* the event is one a command decides against the state
Decidable(event, state) ==
    CASE event.type = "GuestCheckedIn" -> state = initialState
      [] event.type \in TxTypes -> state.status = "Opened"
      [] event.type = "GuestCheckedOut" ->
            state.status = "Opened" /\ state.balance = 0
      [] event.type = "GuestCheckoutFailed" ->
            state.status = "Opened" /\ state.balance # 0

(* C15: accounts are independent. Under every interleaving of requests on
   two accounts, a cycle holds the fold of its own account's stream and a
   command for that account; every event of a stream was decided for that
   stream's account; and each stream, taken alone, is a history its own
   commands produce: each event is one a command decides against the fold
   of the events before it in the same stream. *)
C15_AccountsAreIndependent ==
    /\ \A s \in Slots : requests[s].pc = "handling" =>
          /\ requests[s].command.type # "CheckIn" =>
                requests[s].command.guestStayAccountId = requests[s].id
          /\ requests[s].command.type = "CheckIn" =>
                toGuestStayAccountId(requests[s].command.guestId,
                                     requests[s].command.roomId,
                                     requests[s].command.now) = requests[s].id
          /\ requests[s].state =
                Fold(initialState,
                     SubSeq(streams[requests[s].id], 1, requests[s].version))
    /\ \A id \in AccountIds : \A i \in 1 .. Len(streams[id]) :
          /\ AccountOf(streams[id][i]) = id
          /\ Decidable(streams[id][i],
                       Fold(initialState, SubSeq(streams[id], 1, i - 1)))

\* a guest checked in for a second period while the first holds a charge
C15_Witness ==
    /\ Appended(last)
    /\ last.result.type = "GuestCheckedIn"
    /\ \E id \in AccountIds \ {last.id} :
          /\ Len(streams[id]) = 2
          /\ streams[id][2].type = "ChargeRecorded"
          /\ Len(streams[last.id]) = 1

(* C16: the answer of a check-out tells what that request appended. In the
   step that ends a DELETE request, the answer is NoContent exactly when
   the step appends GuestCheckedOut to the account's stream and Forbidden
   exactly when it appends GuestCheckoutFailed, also when the decision was
   run before against a state that a concurrent charge or payment has since
   changed. *)
C16_CheckOutAnswerMatchesEvent ==
    [][\A s \in Slots :
         (Finishing(s) /\ requests[s].command.type = "CheckOut") =>
            LET id == requests[s].id IN
            /\ last'.response = NoContent <=>
                 streams'[id] = Append(streams[id], GuestCheckedOut(id))
            /\ last'.response = Forbidden <=>
                 streams'[id] = Append(streams[id], GuestCheckoutFailed(id))
            /\ last'.response \notin {NoContent, Forbidden} =>
                 streams' = streams]_vars

\* a check-out first decided GuestCheckedOut on a settled account, lost the
\* append to a concurrent charge, was run again and answered Forbidden
C16_Witness ==
    /\ last.kind = "CheckOut"
    /\ last.rerun
    /\ last.response = Forbidden
    /\ Len(After) = 3
    /\ After[2].type = "ChargeRecorded"
    /\ After[3] = GuestCheckoutFailed(last.id)

(* C17: every stream that holds events is a well-formed history: its first
   event is GuestCheckedIn, no later event is, and a GuestCheckedOut, if
   there is one, is the last event, so there is at most one. *)
C17_HistoriesAreWellFormed ==
    \A id \in AccountIds :
        LET events == streams[id] IN
        events # <<>> =>
            /\ events[1].type = "GuestCheckedIn"
            /\ Count(events, {"GuestCheckedIn"}) = 1
            /\ Count(events, {"GuestCheckedOut"}) <= 1
            /\ \A i \in 1 .. Len(events) :
                  events[i].type = "GuestCheckedOut" => i = Len(events)

\* one stay closed and a second one open with a charge
C17_Witness ==
    \E closed, open \in AccountIds :
        /\ Len(streams[closed]) = 2
        /\ streams[closed][2].type = "GuestCheckedOut"
        /\ Len(streams[open]) = 2
        /\ streams[open][2].type = "ChargeRecorded"

\* the account the URL of a Created answer leads to
Addressed(url) == parseGuestStayAccountId(url[1], url[2], url[3])

(* C18: the URL a check-in answers with leads to the account it wrote. For
   a check-in in flight, whatever the time of day of its one reading of the
   clock, the account it is handled for is the one made of that reading,
   and the URL made of the same reading passes the parameter checks and
   parses back to that account; for a check-in answered Created, the URL
   parses to the account whose stream now starts with its GuestCheckedIn. *)
C18_CreatedUrlAddressesAccount ==
    /\ \A s \in Slots :
          (requests[s].pc = "handling" /\ requests[s].command.type = "CheckIn") =>
             LET c == requests[s].command
                 url == Respond(c, GuestCheckedIn(c.guestId, c.roomId, c.now)).url
             IN
             /\ requests[s].id = toGuestStayAccountId(c.guestId, c.roomId, c.now)
             /\ ~ParamsInvalid(url[1], url[2], url[3])
             /\ Addressed(url) = requests[s].id
    /\ (last.kind = "CheckIn" /\ last.response.status = "Created") =>
          LET url == last.response.url IN
          /\ ~ParamsInvalid(url[1], url[2], url[3])
          /\ Addressed(url) = last.id
          /\ streams[Addressed(url)] # <<>>
          /\ streams[Addressed(url)][1] = last.result
          /\ AccountOf(last.result) = Addressed(url)

\* a check-in answered Created for one period while a check-in read late in
\* the day is in flight for the other
C18_Witness ==
    /\ last.kind = "CheckIn"
    /\ last.response.status = "Created"
    /\ \E s \in Slots :
          /\ requests[s].pc = "handling"
          /\ requests[s].command.type = "CheckIn"
          /\ requests[s].command.now.time # 0
          /\ requests[s].id # last.id

(* C19: the GET endpoint shows open accounts only and writes nothing. A GET
   for a well-formed account address answers OK exactly when the stream
   holds events that start with the check-in and hold no check-out, with
   the Opened state of charges minus payments as its body, and NotFound
   otherwise, for an account without events as for a checked-out one; the
   step that answers a GET changes no stream and no request in flight. *)
C19_GetShowsOpenAccountsOnly ==
    /\ []((last.kind = "Get" /\ last.id \in AccountIds) =>
            /\ last.response.status = "OK" <=> IsOpen(After)
            /\ last.response.status = "OK" =>
                  last.response = OK(Opened(Net(After)))
            /\ last.response.status # "OK" => last.response = NotFound)
    /\ [][last'.kind = "Get" =>
            /\ streams' = streams
            /\ \A s \in Slots : requests'[s] = requests[s] \/ requests[s] = Idle]_vars

\* a GET of a checked-out account answered NotFound
C19_Witness ==
    /\ last.kind = "Get"
    /\ last.response = NotFound
    /\ HasCheckedOut(After)

\* a GET of an open account with two entries answered with its balance
C19_WitnessOpen ==
    /\ last.kind = "Get"
    /\ last.response.status = "OK"
    /\ Count(After, TxTypes) = 2

(* C20: with the cycles in flight scheduled fairly and no more commands
   than the store has room for, every read-decide-append cycle ends: the
   cycle of each client leads to that client being idle again, its command
   appended, refused by the decision or ended with the reported conflict,
   so none is retried for ever. *)
C20_EveryCycleEnds ==
    \A s \in Slots : (requests[s].pc = "handling") ~> (requests[s] = Idle)

\* a command that lost an append, was run again and was appended
C20_Witness ==
    /\ last.rerun
    /\ Appended(last)
    /\ last.state = Fold(initialState, Front(After))
    /\ requests = [s \in Slots |-> Idle]

====
